---- MODULE Spec2Model ----
(***************************************************************************)
(* A model of scraper.js: two scraping scripts that share their file       *)
(* bookkeeping.                                                            *)
(*   - the file-list script (lines 1-449): URLs from a spreadsheet column, *)
(*     processed one at a time, two ledgers (success, failed);             *)
(*   - the sitemap script (lines 451-995): URLs from a sitemap, processed  *)
(*     in concurrent batches, three ledgers (success, failed, nonmatch).   *)
(* One behaviour is one run of one script.  Every action is one block of   *)
(* JavaScript that runs without yielding to the event loop: a callback     *)
(* together with the promise continuations (microtasks) it triggers.       *)
(***************************************************************************)
EXTENDS Integers, Sequences, FiniteSets, TLC

VARIABLES
    script,                 \* which of the two scripts this run executes
    ioFaults,               \* environment: may file operations fail / the process be killed mid-write
    maxConcurrentRequests,  \* CONFIG.maxConcurrentRequests
    saveInterval,           \* CONFIG.saveInterval
    urlSource,              \* the URL universe: <loc> entries of the sitemap / the URL column
    successFile,            \* success.json
    failedFile,             \* failed.json
    nonMatchFile,           \* nonmatch.json
    jsonOutputFile,         \* tireData.json, the Record Store
    outputFile,             \* tireData.xlsx, the tabular export
    pc,                     \* position of runScraper
    urlsToProcess,          \* runScraper: urlsToProcess
    i,                      \* processUrlsInBatches: i / file-list runScraper: index
    attempts,               \* file-list runScraper: attempts
    pipes,                  \* one scrapeUrl pipeline per position of urlsToProcess
    processedCount,         \* processUrlsInBatches: processedCount
    results,                \* processUrlsInBatches: results / file-list runScraper: newTireData
    batchLog,               \* history: the slices [from, to) taken by processUrlsInBatches
    ledgerAtStart,          \* history: URLs held by any ledger file when the run started
    fetched,                \* history: the URLs an HTTP fetch was issued for in this run
    exhausted,              \* history: the pipelines that ran out of retries, with the fetches each issued
    storeLog                \* history: the last flush of saveData (what it loaded, what it was given)

vars == <<script, ioFaults, maxConcurrentRequests, saveInterval, urlSource,
          successFile, failedFile, nonMatchFile, jsonOutputFile, outputFile,
          pc, urlsToProcess, i, attempts, pipes, processedCount, results,
          batchLog, ledgerAtStart, fetched, exhausted, storeLog>>

----------------------------------------------------------------------------
(* Bounds of the model *)

\* longest URL universe
MaxUrls == 3
\* longest URL universe of the runs in which file operations may fail
MaxUrlsIO == 2
\* longest URL universe of the runs that only form batches
MaxList == 12
\* batch size B used by the runs of the model (CONFIG sets 5)
MaxBatch == 2
\* the longest sitemap of the runs that probe the target-domain predicate
MaxProbe == 2

(* Program constants *)

\* CONFIG.maxRetries (both scripts)
maxRetries == 3
\* CONFIG.maxRetriesForNonMatches
maxRetriesForNonMatches == 1
\* the export period of the file-list saveData: mergedData.length % 50
ExcelEvery == 50
\* CONFIG.maxConcurrentRequests
ConfigMaxConcurrentRequests == 5
\* CONFIG.saveInterval
ConfigSaveInterval == 5
\* CONFIG.targetDomains
targetDomains == {"www.pitstoparabia.com"}

----------------------------------------------------------------------------
(* Values *)

Url(s, h, p) == [scheme |-> s, host |-> h, path |-> p]

T1 == Url("https", "www.pitstoparabia.com", "/a")
T2 == Url("https", "www.pitstoparabia.com", "/b")
X1 == Url("https", "other.com", "/x")

\* the empty string in the place of a URL
EmptyUrl == Url("", "", "")

\* the URLs the universe is drawn from: two of the target domain, one foreign
Urls == {T1, T2, X1}

SeqToSet(s) == {s[k] : k \in DOMAIN s}

Min(a, b) == IF a < b THEN a ELSE b

\* a JSON file: parsable content (ok) holding an array, or unparsable content
File(data) == [ok |-> TRUE, data |-> data]
TornFile == [ok |-> FALSE, data |-> <<>>]

\* a scraped record; "" is the empty string a missing selector yields
Rec(u, n, s, p) == [url |-> u, name |-> n, sizeNo |-> s, price |-> p]

\* a stored record of a previous run
OldRec(u) == Rec(u, "old", "205/55R16", "AED 95.00")

----------------------------------------------------------------------------
(* Pure functions of the scripts *)

\* new URL(url) succeeds: the string has a scheme and a host (a string
\* without a scheme is a relative reference, which throws without a base)
parses(url) == url.scheme # "" /\ url.host # ""

\* the host as the URL parser reports it: ASCII letters in lower case
toLowerHost(h) == IF h = "WWW.PITSTOPARABIA.COM" THEN "www.pitstoparabia.com" ELSE h

\* urlObj.hostname
hostname(url) == toLowerHost(url.host)

\* (variant: every string that parses is a target, whatever its host)
isTargetUrlAnyHost(url) == parses(url)

\* (variant: the host is taken from the string without the URL parser
\* rejecting a string that is no URL)
isTargetUrlNoParse(url) == hostname(url) \in targetDomains

\* isTargetUrl: false when new URL(url) throws, else whether the hostname is
\* one of CONFIG.targetDomains
isTargetUrl(url) ==
    IF ~parses(url) THEN FALSE ELSE hostname(url) \in targetDomains

\* loadUrls: url.startsWith("http") on the trimmed column value
startsWithHttp(url) == url.scheme \in {"http", "https"}

\* (variant: the record counts as incomplete only when both fields are empty)
IncompleteBoth(tireData) == tireData.name = "" /\ tireData.sizeNo = ""

\* the completeness test of scrapeUrl and of the file-list runScraper:
\* !tireData.name || !tireData.sizeNo
Incomplete(tireData) == tireData.name = "" \/ tireData.sizeNo = ""

\* the filter of the sitemap saveData:
\* item && item.url && item.name && item.sizeNo && item.price
ValidRecord(item) ==
    /\ item.url # EmptyUrl
    /\ item.name # ""
    /\ item.sizeNo # ""
    /\ item.price # ""

\* (variant: the filter forgets the failed ledger)
isNewUrlNoFailed(url, successUrls, failedUrls, nonMatchUrls) ==
    /\ url \notin successUrls
    /\ url \notin nonMatchUrls

\* the filter of the sitemap runScraper: the URL is in none of the ledgers
isNewUrl(url, successUrls, failedUrls, nonMatchUrls) ==
    /\ url \notin successUrls
    /\ url \notin failedUrls
    /\ url \notin nonMatchUrls

\* (variant: the filter forgets the success ledger)
isNewUrlFileListNoSuccess(url, successUrls, failedUrls) == url \notin failedUrls

\* the filter of the file-list runScraper
isNewUrlFileList(url, successUrls, failedUrls) ==
    /\ url \notin successUrls
    /\ url \notin failedUrls

\* the retry budget of the sitemap scrapeUrl
maxRetriesFor(url) ==
    IF isTargetUrl(url) THEN maxRetries ELSE maxRetriesForNonMatches

\* (variant: one retry too many, retryCount <= maxRetries)
canRetryOffByOne(url, retryCount) == retryCount <= maxRetriesFor(url)

\* the test of the catch block of the sitemap scrapeUrl: retryCount < maxRetries
canRetry(url, retryCount) == retryCount < maxRetriesFor(url)

\* the test of the catch block of the file-list scrapeUrl
canRetryFileList(retryCount) == retryCount < maxRetries

\* (variant: the two branches swapped)
failureLedgerSwapped(url) == IF isTargetUrl(url) THEN "nonmatch" ELSE "failed"

\* the ledger the sitemap scrapeUrl names when the retries are used up
failureLedger(url) == IF isTargetUrl(url) THEN "failed" ELSE "nonmatch"

\* loadProcessedUrls: the parsed array; [] when the read or JSON.parse throws
loadProcessedUrls(file, readOk) ==
    IF readOk /\ file.ok THEN file.data ELSE <<>>

\* a saveProgress that writes from an empty snapshot instead of the file's
\* current content
saveProgressOverwrite(file, url, f) ==
    IF f.write THEN File(<<url>>) ELSE file

\* saveProgress: re-read the ledger, push the URL when absent and rewrite the
\* whole file; a throwing write is caught and leaves the file as it was
saveProgress(file, url, f) ==
    LET processedUrls == loadProcessedUrls(file, f.read)
    IN  IF url \notin SeqToSet(processedUrls)
        THEN IF f.write THEN File(Append(processedUrls, url)) ELSE file
        ELSE file

\* consecutive saveProgress calls on one ledger file, each with its own outcome
RECURSIVE saveProgressAll(_, _, _)
saveProgressAll(file, urls, fs) ==
    IF urls = <<>> THEN file
    ELSE saveProgressAll(saveProgress(file, Head(urls), Head(fs)), Tail(urls), Tail(fs))

\* loadExistingData and the inlined load of saveData: the parsed store; []
\* when the file is empty, or the read or JSON.parse throws
loadExistingData(file, readOk) ==
    IF readOk /\ file.ok THEN file.data ELSE <<>>

\* (variant: the merge loop without existingUrls.add)
RECURSIVE mergeLoopNoAdd(_, _, _)
mergeLoopNoAdd(mergedData, existingUrls, newData) ==
    IF newData = <<>> THEN mergedData
    ELSE LET newItem == Head(newData)
         IN  IF newItem.url \notin existingUrls
             THEN mergeLoopNoAdd(Append(mergedData, newItem), existingUrls, Tail(newData))
             ELSE mergeLoopNoAdd(mergedData, existingUrls, Tail(newData))

\* the merge loop of saveData: push newItem unless existingUrls has its url,
\* and add the url to existingUrls
RECURSIVE mergeLoop(_, _, _)
mergeLoop(mergedData, existingUrls, newData) ==
    IF newData = <<>> THEN mergedData
    ELSE LET newItem == Head(newData)
         IN  IF newItem.url \notin existingUrls
             THEN mergeLoop(Append(mergedData, newItem),
                            existingUrls \cup {newItem.url}, Tail(newData))
             ELSE mergeLoop(mergedData, existingUrls, Tail(newData))

\* (variant: mergedData starts empty instead of as a copy of existingData)
mergeDataDropExisting(existingData, newData) ==
    mergeLoop(<<>>, {existingData[k].url : k \in DOMAIN existingData}, newData)

\* saveData from existingUrls to the end of the merge loop
mergeData(existingData, newData) ==
    mergeLoop(existingData, {existingData[k].url : k \in DOMAIN existingData}, newData)

\* the rows of the workbook: one row per record (the URL column identifies it)
excelData(mergedData) == [k \in DOMAIN mergedData |-> mergedData[k].url]

\* (variant: the slice ends one element late)
sliceLong(urls, from, to) == SubSeq(urls, from + 1, Min(to + 1, Len(urls)))

\* (variant: the slice ends one element early)
sliceShort(urls, from, to) == SubSeq(urls, from + 1, Min(to, Len(urls)) - 1)

\* urls.slice(from, to) with 0-based from and exclusive to
slice(urls, from, to) == SubSeq(urls, from + 1, Min(to, Len(urls)))

\* Math.ceil(urls.length / maxConcurrentRequests)
totalBatches(n, B) == (n + B - 1) \div B

----------------------------------------------------------------------------
(* saveData.  f names what the file system does during the call:           *)
(*   f.read   the read of the store succeeds;                              *)
(*   f.write  "ok", "fail" (writeFileSync throws and leaves the file) or   *)
(*            "torn" (the process is killed while writeFileSync, which     *)
(*            truncates and rewrites the file in place, is under way);     *)
(*   f.xlsx   "ok" (the workbook is written to the temporary file and      *)
(*            renamed), "fail" (XLSX.writeFile throws), "notemp" (the      *)
(*            temporary file is not there when existsSync looks for it)    *)
(*            or "torn" (as "notemp", and the process is killed while the  *)
(*            workbook is written).                                        *)
(* The result is the two files after the call, whether the process was     *)
(* killed, whether the store was rewritten (with what was loaded), how the *)
(* export was replaced, and the finalSave the call was given.              *)

SaveResult(store, out, killed, flushed, loaded, merged, export) ==
    [store |-> store, out |-> out, killed |-> killed, flushed |-> flushed,
     loaded |-> loaded, merged |-> merged, export |-> export, final |-> FALSE]

\* the export step of saveData: XLSX.writeFile to the temporary file, then
\* renameSync; fallback tells whether the code has the else branch that
\* writes CONFIG.outputFile itself when the temporary file is missing
\* (without it renameSync throws and the export stays as it was)
writeExport(out, mergedData, fallback, f) ==
    CASE f.xlsx = "ok" ->
           [out |-> File(excelData(mergedData)), killed |-> FALSE, export |-> "renamed"]
      [] f.xlsx = "notemp" /\ fallback ->
           [out |-> File(excelData(mergedData)), killed |-> FALSE, export |-> "inplace"]
      [] f.xlsx = "torn" /\ fallback ->
           [out |-> TornFile, killed |-> TRUE, export |-> "inplace"]
      [] OTHER ->
           [out |-> out, killed |-> FALSE, export |-> "none"]

\* the write of the store and of the export, common to both saveData
writeFiles(store, out, existingData, mergedData, export, fallback, f) ==
    CASE f.write = "fail" -> SaveResult(store, out, FALSE, FALSE, <<>>, <<>>, "none")
      [] f.write = "torn" -> SaveResult(TornFile, out, TRUE, FALSE, <<>>, <<>>, "none")
      [] OTHER ->
           LET e == IF export THEN writeExport(out, mergedData, fallback, f)
                    ELSE [out |-> out, killed |-> FALSE, export |-> "none"]
           IN  SaveResult(File(mergedData), e.out, e.killed, TRUE,
                          existingData, mergedData, e.export)

\* (variant: the early return does not look at finalSave)
saveDataNoForce(store, out, newData, finalSave, f) ==
    LET validNewData == SelectSeq(newData, ValidRecord)
    IN  IF validNewData = <<>>
        THEN SaveResult(store, out, FALSE, FALSE, <<>>, <<>>, "none")
        ELSE LET existingData == loadExistingData(store, f.read)
                 mergedData == mergeData(existingData, validNewData)
             IN  [writeFiles(store, out, existingData, mergedData, TRUE, TRUE, f)
                    EXCEPT !.final = finalSave]

\* (variant: without the early return on an empty validNewData)
saveDataNoEarlyReturn(store, out, newData, finalSave, f) ==
    LET validNewData == SelectSeq(newData, ValidRecord)
        existingData == loadExistingData(store, f.read)
        mergedData == mergeData(existingData, validNewData)
    IN  [writeFiles(store, out, existingData, mergedData,
                    finalSave \/ validNewData # <<>>, TRUE, f)
           EXCEPT !.final = finalSave]

\* saveData of the sitemap script
saveData(store, out, newData, finalSave, f) ==
    LET validNewData == SelectSeq(newData, ValidRecord)
    IN  IF validNewData = <<>> /\ ~finalSave
        THEN SaveResult(store, out, FALSE, FALSE, <<>>, <<>>, "none")
        ELSE LET existingData == loadExistingData(store, f.read)
                 mergedData == mergeData(existingData, validNewData)
             IN  [writeFiles(store, out, existingData, mergedData,
                             finalSave \/ validNewData # <<>>, TRUE, f)
                    EXCEPT !.final = finalSave]

\* saveData of the file-list script
saveDataFileList(store, out, newData, finalSave, f) ==
    LET existingData == loadExistingData(store, f.read)
        mergedData == mergeData(existingData, newData)
    IN  [writeFiles(store, out, existingData, mergedData,
                    finalSave \/ Len(mergedData) % ExcelEvery = 0, FALSE, f)
           EXCEPT !.final = finalSave]

----------------------------------------------------------------------------
(* What the environment may do *)

NoFault == [read |-> TRUE, write |-> TRUE]

\* outcomes of one saveProgress call
LedgerFaults ==
    IF ioFaults
    THEN {NoFault, [read |-> FALSE, write |-> TRUE], [read |-> TRUE, write |-> FALSE]}
    ELSE {NoFault}

\* outcomes of one read of a ledger file
ReadFaults == IF ioFaults THEN BOOLEAN ELSE {TRUE}

\* outcomes of initializeFiles: it returns (the data directory is there, or
\* mkdirSync creates it), or mkdirSync throws
MkdirFaults == IF ioFaults THEN BOOLEAN ELSE {TRUE}

\* outcomes of one saveData call (when the write of the store does not
\* succeed, nothing else of the call shows)
StoreFaults ==
    IF ioFaults
    THEN [read : BOOLEAN, write : {"ok"}, xlsx : {"ok", "fail"}]
         \cup [read : {TRUE}, write : {"ok"}, xlsx : {"notemp", "torn"}]
         \cup [read : {TRUE}, write : {"fail", "torn"}, xlsx : {"ok"}]
    ELSE {[read |-> TRUE, write |-> "ok", xlsx |-> "ok"]}

\* an HTTP response as the scripts see it: ok is a 200 answer whose markup
\* scrapeTireData reads without throwing; the fields are what the selectors find
Response(ok, n, s, p) == [ok |-> ok, name |-> n, sizeNo |-> s, price |-> p]

Responses ==
    {Response(FALSE, "", "", ""),
     Response(TRUE, "", "205/55R16", "AED 95.00"),
     Response(TRUE, "Tyre", "", "AED 95.00"),
     Response(TRUE, "Tyre", "205/55R16", ""),
     Response(TRUE, "Tyre", "205/55R16", "AED 95.00")}

----------------------------------------------------------------------------
(* Initial states: a run starts on the files earlier runs left *)

\* the URLs an earlier run may have classified
PriorUrls == <<T1, X1>>

PriorClasses == {"none", "success", "failed", "nonmatch"}

\* the ledger content of class c when PriorUrls[k] was classified class[k]
PriorOf(class, c) ==
    SelectSeq(PriorUrls,
              LAMBDA u : \E k \in DOMAIN PriorUrls : PriorUrls[k] = u /\ class[k] = c)

Universes(maxLen) == UNION {[1..n -> Urls] : n \in 0..maxLen}

PendingPipe == [st |-> "pending", retryCount |-> 0, fetches |-> 0, res |-> <<>>]

NoFlush == [flushed |-> FALSE, before |-> <<>>, loaded |-> <<>>, given |-> <<>>,
            final |-> FALSE, export |-> "none"]

InitFiles ==
    \E class \in [DOMAIN PriorUrls -> PriorClasses], stored \in BOOLEAN :
        /\ script = "filelist" => \A k \in DOMAIN class : class[k] # "nonmatch"
        /\ (\A k \in DOMAIN class : class[k] # "success") => stored
        /\ successFile = File(PriorOf(class, "success"))
        /\ failedFile = File(PriorOf(class, "failed"))
        /\ nonMatchFile = File(PriorOf(class, "nonmatch"))
        /\ LET old == PriorOf(class, "success")
           IN  jsonOutputFile =
                   File(IF stored THEN [k \in DOMAIN old |-> OldRec(old[k])] ELSE <<>>)
        /\ outputFile = File(excelData(jsonOutputFile.data))

\* the state of runScraper when it is called
InitMemory ==
    /\ pc = "start"
    /\ urlsToProcess = <<>>
    /\ i = 0
    /\ attempts = 0
    /\ pipes = <<>>
    /\ processedCount = 0
    /\ results = <<>>
    /\ batchLog = <<>>
    /\ ledgerAtStart = SeqToSet(successFile.data) \cup SeqToSet(failedFile.data)
                           \cup SeqToSet(nonMatchFile.data)
    /\ fetched = {}
    /\ exhausted = {}
    /\ storeLog = NoFlush

InitRun(maxLen) ==
    /\ script \in {"sitemap", "filelist"}
    /\ maxConcurrentRequests \in IF script = "sitemap" THEN 1..MaxBatch ELSE {MaxBatch}
    /\ saveInterval = MaxBatch
    /\ urlSource \in Universes(maxLen)
    /\ InitFiles
    /\ InitMemory

Init == ioFaults = FALSE /\ InitRun(MaxUrls)

InitIO == ioFaults = TRUE /\ InitRun(MaxUrlsIO)

\* a sitemap of n distinct URLs of a foreign host, which settle without a fetch
ForeignList(n) == [k \in 1..n |-> Url("https", "other.com", ToString(k))]

\* first runs of the sitemap script, with the batch size up to the configured
\* one, on sitemaps whose URLs need no fetch
InitBatch ==
    /\ ioFaults = FALSE
    /\ script = "sitemap"
    /\ maxConcurrentRequests \in 1..ConfigMaxConcurrentRequests
    /\ saveInterval = ConfigSaveInterval
    /\ \E n \in 0..MaxList : urlSource = ForeignList(n)
    /\ successFile = File(<<>>)
    /\ failedFile = File(<<>>)
    /\ nonMatchFile = File(<<>>)
    /\ jsonOutputFile = File(<<>>)
    /\ outputFile = File(<<>>)
    /\ InitMemory

\* strings a sitemap may list that the target-domain predicate must accept:
\* the allowed host under either scheme and in upper case
AcceptedCandidates ==
    {Url("https", "www.pitstoparabia.com", "/tyre/1"),
     Url("http", "www.pitstoparabia.com", "/a"),
     Url("https", "WWW.PITSTOPARABIA.COM", "/a")}

\* strings it must reject: a substring and two superstrings of the allowed
\* host, another host, and strings that are no URL
RejectedCandidates ==
    {Url("https", "pitstoparabia.com", "/a"),
     Url("https", "www.pitstoparabia.com.evil.com", "/a"),
     Url("https", "shop.www.pitstoparabia.com", "/a"),
     Url("https", "other.com", "/x"),
     Url("", "www.pitstoparabia.com", "/a"),
     Url("", "", "not a url"),
     EmptyUrl}

Candidates == AcceptedCandidates \cup RejectedCandidates

\* first runs of the sitemap script on sitemaps of such strings
InitProbe ==
    /\ ioFaults = FALSE
    /\ script = "sitemap"
    /\ maxConcurrentRequests = MaxBatch
    /\ saveInterval = MaxBatch
    /\ urlSource \in UNION {[1..n -> Candidates] : n \in 0..MaxProbe}
    /\ successFile = File(<<>>)
    /\ failedFile = File(<<>>)
    /\ nonMatchFile = File(<<>>)
    /\ jsonOutputFile = File(<<>>)
    /\ outputFile = File(<<>>)
    /\ InitMemory

----------------------------------------------------------------------------
(* The sitemap script *)

\* the batch of the loop turn with index from
batchAt(from) == slice(urlsToProcess, from, from + maxConcurrentRequests)

\* the positions of urlsToProcess the pipelines of that batch stand at
BatchPositions(from) == {from + k : k \in DOMAIN batchAt(from)}

\* (variant: the loop goes on as soon as one pipeline has settled)
BatchSettledAny == \E k \in BatchPositions(i) : pipes[k].st = "settled"

\* Promise.all(batchPromises) resolves: every pipeline of the batch has settled
BatchSettled == \A k \in BatchPositions(i) : pipes[k].st = "settled"

\* a pipeline that has settled with the given result (<<>> is null); its
\* call frames, and with them retryCount, are gone
Settled(pipe, res) == [st |-> "settled", retryCount |-> 0, fetches |-> 0, res |-> res]

\* the entry of exhausted for pipeline k giving up
GaveUp(k) == [pos |-> k, url |-> urlsToProcess[k], fetches |-> pipes[k].fetches]

\* runScraper up to the call of processUrlsInBatches: initializeFiles (outside
\* the try block: what it throws leaves runScraper), then fetch the sitemap,
\* read the three ledgers, filter
LoadSitemap ==
    /\ pc = "start"
    /\ script = "sitemap"
    /\ \E mk \in MkdirFaults, got \in BOOLEAN,
          rs \in ReadFaults, rf \in ReadFaults, rn \in ReadFaults :
        LET urls == IF got THEN urlSource ELSE <<>>
            successUrls == SeqToSet(loadProcessedUrls(successFile, rs))
            failedUrls == SeqToSet(loadProcessedUrls(failedFile, rf))
            nonMatchUrls == SeqToSet(loadProcessedUrls(nonMatchFile, rn))
            todo == SelectSeq(urls, LAMBDA url :
                                  isNewUrl(url, successUrls, failedUrls, nonMatchUrls))
        IN  IF ~mk
            THEN pc' = "crashed" /\ UNCHANGED <<urlsToProcess, pipes>>
            ELSE IF urls = <<>>
            THEN pc' = "done" /\ UNCHANGED <<urlsToProcess, pipes>>
            ELSE /\ urlsToProcess' = todo
                 /\ pipes' = [k \in DOMAIN todo |-> PendingPipe]
                 /\ pc' = IF todo = <<>> THEN "done" ELSE "batch"
    /\ UNCHANGED <<script, ioFaults, maxConcurrentRequests, saveInterval, urlSource,
                   successFile, failedFile, nonMatchFile, jsonOutputFile, outputFile,
                   i, attempts, processedCount, results, batchLog, ledgerAtStart, fetched,
                   exhausted, storeLog>>

\* one turn of the loop of processUrlsInBatches up to the await: slice the
\* batch and call scrapeUrl(url) for each of its URLs.  A URL that is no
\* target is written to the nonmatch ledger by scrapeUrl, which returns null,
\* and again by the .then callback, before any response can arrive.
StartBatch ==
    /\ pc = "batch"
    /\ script = "sitemap"
    /\ LET from == i
           batch == batchAt(from)
           rejected == SelectSeq(batch, LAMBDA url : ~isTargetUrl(url))
       IN  /\ batchLog' = Append(batchLog, [from |-> from, urls |-> batch])
           /\ fetched' = fetched \cup {url \in SeqToSet(batch) : isTargetUrl(url)}
           /\ pipes' = [k \in DOMAIN pipes |->
                          IF k \in BatchPositions(from)
                          THEN IF isTargetUrl(urlsToProcess[k])
                               THEN [pipes[k] EXCEPT !.st = "fetching", !.fetches = @ + 1]
                               ELSE Settled(pipes[k], <<>>)
                          ELSE pipes[k]]
           /\ processedCount' = processedCount + Len(rejected)
           /\ \E fs \in [1..(2 * Len(rejected)) -> LedgerFaults] :
                nonMatchFile' = saveProgressAll(nonMatchFile, rejected \o rejected, fs)
    /\ pc' = "await"
    /\ UNCHANGED <<script, ioFaults, maxConcurrentRequests, saveInterval, urlSource,
                   successFile, failedFile, jsonOutputFile, outputFile,
                   urlsToProcess, i, attempts, results, ledgerAtStart, exhausted,
                   storeLog>>

\* the response of the fetch of pipeline k arrives: the rest of scrapeUrl and
\* the .then or .catch callback of the batch
FetchDone(k) ==
    /\ pc \notin {"killed"}
    /\ script = "sitemap"
    /\ pipes[k].st = "fetching"
    /\ \E resp \in Responses :
        LET url == urlsToProcess[k]
            tireData == Rec(url, resp.name, resp.sizeNo, resp.price)
        IN  IF resp.ok /\ ~Incomplete(tireData)
            THEN \* saveProgress in scrapeUrl, then again in .then
                 /\ \E fs \in [1..2 -> LedgerFaults] :
                      successFile' = saveProgressAll(successFile, <<url, url>>, fs)
                 /\ pipes' = [pipes EXCEPT ![k] = Settled(@, <<tireData>>)]
                 /\ processedCount' = processedCount + 1
                 /\ UNCHANGED <<failedFile, nonMatchFile, exhausted>>
            ELSE IF canRetry(url, pipes[k].retryCount)
            THEN \* catch: wait 1000 * (retryCount + 1) ms
                 /\ pipes' = [pipes EXCEPT ![k].st = "delaying"]
                 /\ UNCHANGED <<successFile, failedFile, nonMatchFile, processedCount,
                                exhausted>>
            ELSE \* catch: out of retries, classify and rethrow to .catch
                 /\ \E f \in LedgerFaults :
                      IF failureLedger(url) = "failed"
                      THEN /\ failedFile' = saveProgress(failedFile, url, f)
                           /\ UNCHANGED nonMatchFile
                      ELSE /\ nonMatchFile' = saveProgress(nonMatchFile, url, f)
                           /\ UNCHANGED failedFile
                 /\ pipes' = [pipes EXCEPT ![k] = Settled(@, <<>>)]
                 /\ exhausted' = exhausted \cup {GaveUp(k)}
                 /\ processedCount' = processedCount + 1
                 /\ UNCHANGED successFile
    /\ UNCHANGED <<script, ioFaults, maxConcurrentRequests, saveInterval, urlSource,
                   jsonOutputFile, outputFile, pc, urlsToProcess, i, attempts,
                   results, batchLog, ledgerAtStart, fetched, storeLog>>

\* the retry delay of pipeline k ends: scrapeUrl(url, retryCount + 1)
RetryTimer(k) ==
    /\ pc \notin {"killed"}
    /\ script = "sitemap"
    /\ pipes[k].st = "delaying"
    /\ LET url == urlsToProcess[k]
       IN  IF isTargetUrl(url)
           THEN /\ pipes' = [pipes EXCEPT ![k].st = "fetching",
                                          ![k].retryCount = @ + 1,
                                          ![k].fetches = @ + 1]
                /\ fetched' = fetched \cup {url}
                /\ UNCHANGED <<nonMatchFile, processedCount>>
           ELSE /\ \E fs \in [1..2 -> LedgerFaults] :
                     nonMatchFile' = saveProgressAll(nonMatchFile, <<url, url>>, fs)
                /\ pipes' = [pipes EXCEPT ![k] = Settled(@, <<>>)]
                /\ processedCount' = processedCount + 1
                /\ UNCHANGED fetched
    /\ UNCHANGED <<script, ioFaults, maxConcurrentRequests, saveInterval, urlSource,
                   successFile, failedFile, jsonOutputFile, outputFile, pc,
                   urlsToProcess, i, attempts, results, batchLog, ledgerAtStart,
                   exhausted, storeLog>>

\* the non-null results of the pipelines at positions from + 1 .. to, in order
RECURSIVE batchResults(_, _)
batchResults(from, to) ==
    IF from >= to THEN <<>>
    ELSE pipes[from + 1].res \o batchResults(from + 1, to)

\* the store, the export, pc and storeLog after a saveData call that returned r
AfterSave(r, newData, next) ==
    /\ jsonOutputFile' = r.store
    /\ outputFile' = r.out
    /\ pc' = IF r.killed THEN "killed" ELSE next
    /\ storeLog' = IF r.flushed
                   THEN [flushed |-> TRUE, before |-> jsonOutputFile.data,
                         loaded |-> r.loaded, given |-> newData,
                         final |-> r.final, export |-> r.export]
                   ELSE storeLog

\* the rest of the turn of the loop once Promise.all has resolved: collect
\* the results, save them when the count or the end of the list asks for it,
\* then wait delayBetweenRequests (pc = "batch") or return (pc = "final")
BatchBarrier ==
    /\ pc = "await"
    /\ script = "sitemap"
    /\ BatchSettled
    /\ LET successfulResults == batchResults(i, i + Len(batchAt(i)))
           next == IF i + maxConcurrentRequests < Len(urlsToProcess)
                   THEN "batch" ELSE "final"
       IN  /\ results' = results \o successfulResults
           /\ IF \/ processedCount % saveInterval = 0
                 \/ i + maxConcurrentRequests >= Len(urlsToProcess)
              THEN \E f \in StoreFaults :
                     AfterSave(saveData(jsonOutputFile, outputFile, successfulResults,
                                        FALSE, f), successfulResults, next)
              ELSE /\ pc' = next
                   /\ UNCHANGED <<jsonOutputFile, outputFile, storeLog>>
    /\ i' = i + maxConcurrentRequests
    /\ UNCHANGED <<script, ioFaults, maxConcurrentRequests, saveInterval, urlSource,
                   successFile, failedFile, nonMatchFile, urlsToProcess, attempts,
                   pipes, processedCount, batchLog, ledgerAtStart, fetched, exhausted>>

\* runScraper after processUrlsInBatches: saveData(newTireData, true), then
\* the files are read for the report
FinalSave ==
    /\ pc = "final"
    /\ script = "sitemap"
    /\ \E f \in StoreFaults :
         AfterSave(saveData(jsonOutputFile, outputFile, results, TRUE, f), results, "done")
    /\ UNCHANGED <<script, ioFaults, maxConcurrentRequests, saveInterval, urlSource,
                   successFile, failedFile, nonMatchFile, urlsToProcess, i, attempts,
                   pipes, processedCount, results, batchLog, ledgerAtStart, fetched, exhausted>>

NextSitemap ==
    \/ LoadSitemap
    \/ StartBatch
    \/ \E k \in DOMAIN pipes : FetchDone(k)
    \/ \E k \in DOMAIN pipes : RetryTimer(k)
    \/ BatchBarrier
    \/ FinalSave


----------------------------------------------------------------------------
(* The file-list script *)

\* [...new Set(urls)]: the first occurrence of every URL, in order
RECURSIVE unique(_)
unique(urls) ==
    IF urls = <<>> THEN <<>>
    ELSE LET front == unique(SubSeq(urls, 1, Len(urls) - 1))
             last == urls[Len(urls)]
         IN  IF last \in SeqToSet(front) THEN front ELSE Append(front, last)

\* the first call scrapeUrl(url) of the while loop for the URL at position k:
\* attempts++ and the fetch is issued
FirstAttempt(ps, k) == [ps EXCEPT ![k].st = "fetching", ![k].fetches = @ + 1]

\* runScraper up to the first fetch: initializeFiles (outside the try block),
\* then load the URL column, read the two ledgers, drop duplicates and
\* processed URLs, enter the loop
LoadFileList ==
    /\ pc = "start"
    /\ script = "filelist"
    /\ \E mk \in MkdirFaults, loaded \in BOOLEAN, rs \in ReadFaults, rf \in ReadFaults :
        LET urls == IF loaded THEN SelectSeq(urlSource, startsWithHttp) ELSE <<>>
            successUrls == SeqToSet(loadProcessedUrls(successFile, rs))
            failedUrls == SeqToSet(loadProcessedUrls(failedFile, rf))
            uniqueUrls == unique(urls)
            todo == SelectSeq(uniqueUrls, LAMBDA url :
                                  isNewUrlFileList(url, successUrls, failedUrls))
        IN  IF ~mk
            THEN pc' = "crashed" /\ UNCHANGED <<urlsToProcess, pipes, attempts, fetched>>
            ELSE IF urls = <<>> \/ todo = <<>>
            THEN pc' = "done" /\ UNCHANGED <<urlsToProcess, pipes, attempts, fetched>>
            ELSE /\ urlsToProcess' = todo
                 /\ pipes' = FirstAttempt([k \in DOMAIN todo |-> PendingPipe], 1)
                 /\ fetched' = fetched \cup {todo[1]}
                 /\ attempts' = 1
                 /\ pc' = "run"
    /\ UNCHANGED <<script, ioFaults, maxConcurrentRequests, saveInterval, urlSource,
                   successFile, failedFile, nonMatchFile, jsonOutputFile, outputFile,
                   i, processedCount, results, batchLog, ledgerAtStart, exhausted,
                   storeLog>>

\* the loop of runScraper moves from index i to the next URL, or ends
NextIndex(ps) ==
    IF i < Len(urlsToProcess) - 1
    THEN /\ i' = i + 1
         /\ attempts' = 1
         /\ pipes' = FirstAttempt(ps, i + 2)
         /\ fetched' = fetched \cup {urlsToProcess[i + 2]}
         /\ pc' = "run"
    ELSE /\ pc' = "final"
         /\ pipes' = ps
         /\ UNCHANGED <<i, attempts, fetched>>

\* the response of the fetch for the URL at index i arrives: the rest of
\* scrapeUrl and of the try block of runScraper
FetchDoneFileList ==
    /\ pc = "run"
    /\ script = "filelist"
    /\ pipes[i + 1].st = "fetching"
    /\ \E resp \in Responses :
        LET k == i + 1
            url == urlsToProcess[k]
            tireData == Rec(url, resp.name, resp.sizeNo, resp.price)
        IN  IF resp.ok /\ ~Incomplete(tireData)
            THEN \* scrapeUrl returns; runScraper pushes, marks, saves
                 LET newTireData == Append(results, tireData)
                 IN  /\ results' = newTireData
                     /\ \E f \in LedgerFaults :
                          successFile' = saveProgress(successFile, url, f)
                     /\ pipes' = [pipes EXCEPT ![k] = Settled(@, <<tireData>>)]
                     /\ \E f \in StoreFaults :
                          AfterSave(saveDataFileList(jsonOutputFile, outputFile,
                                                     newTireData, FALSE, f),
                                    newTireData,
                                    IF i < Len(urlsToProcess) - 1 THEN "next" ELSE "final")
                     /\ UNCHANGED <<failedFile, i, attempts, fetched, exhausted>>
            ELSE IF canRetryFileList(pipes[k].retryCount)
            THEN \* catch of scrapeUrl: wait 2000 * (retryCount + 1) ms
                 /\ pipes' = [pipes EXCEPT ![k].st = "delaying"]
                 /\ UNCHANGED <<successFile, failedFile, jsonOutputFile, outputFile, pc,
                                i, attempts, results, fetched, exhausted, storeLog>>
            ELSE IF attempts >= maxRetries
            THEN \* catch of runScraper: give up, go on with the next URL at once
                 /\ \E f \in LedgerFaults : failedFile' = saveProgress(failedFile, url, f)
                 /\ NextIndex([pipes EXCEPT ![k] = Settled(@, <<>>)])
                 /\ exhausted' = exhausted \cup {GaveUp(k)}
                 /\ UNCHANGED <<successFile, jsonOutputFile, outputFile, results, storeLog>>
            ELSE \* catch of runScraper: wait 3000 * attempts ms
                 /\ pipes' = [pipes EXCEPT ![k].st = "waiting"]
                 /\ UNCHANGED <<successFile, failedFile, jsonOutputFile, outputFile, pc,
                                i, attempts, results, fetched, exhausted, storeLog>>
    /\ UNCHANGED <<script, ioFaults, maxConcurrentRequests, saveInterval, urlSource,
                   nonMatchFile, urlsToProcess, processedCount, batchLog, ledgerAtStart>>

\* the retry delay of scrapeUrl ends: scrapeUrl(url, retryCount + 1)
RetryTimerFileList ==
    /\ pc = "run"
    /\ script = "filelist"
    /\ pipes[i + 1].st = "delaying"
    /\ pipes' = [pipes EXCEPT ![i + 1].st = "fetching",
                              ![i + 1].retryCount = @ + 1,
                              ![i + 1].fetches = @ + 1]
    /\ fetched' = fetched \cup {urlsToProcess[i + 1]}
    /\ UNCHANGED <<script, ioFaults, maxConcurrentRequests, saveInterval, urlSource,
                   successFile, failedFile, nonMatchFile, jsonOutputFile, outputFile,
                   pc, urlsToProcess, i, attempts, processedCount, results, batchLog,
                   ledgerAtStart, exhausted, storeLog>>

\* the delay of the while loop ends: attempts++ and scrapeUrl(url) anew
AttemptTimerFileList ==
    /\ pc = "run"
    /\ script = "filelist"
    /\ pipes[i + 1].st = "waiting"
    /\ attempts' = attempts + 1
    /\ pipes' = [pipes EXCEPT ![i + 1].st = "fetching",
                              ![i + 1].retryCount = 0,
                              ![i + 1].fetches = @ + 1]
    /\ fetched' = fetched \cup {urlsToProcess[i + 1]}
    /\ UNCHANGED <<script, ioFaults, maxConcurrentRequests, saveInterval, urlSource,
                   successFile, failedFile, nonMatchFile, jsonOutputFile, outputFile,
                   pc, urlsToProcess, i, processedCount, results, batchLog,
                   ledgerAtStart, exhausted, storeLog>>

\* delayBetweenRequests after a successful URL ends: the next URL
NextUrlFileList ==
    /\ pc = "next"
    /\ script = "filelist"
    /\ NextIndex(pipes)
    /\ UNCHANGED <<script, ioFaults, maxConcurrentRequests, saveInterval, urlSource,
                   successFile, failedFile, nonMatchFile, jsonOutputFile, outputFile,
                   urlsToProcess, processedCount, results, batchLog, ledgerAtStart,
                   exhausted, storeLog>>

\* runScraper after the loop: saveData(newTireData, true) when anything was scraped
FinalSaveFileList ==
    /\ pc = "final"
    /\ script = "filelist"
    /\ IF Len(results) > 0
       THEN \E f \in StoreFaults :
              AfterSave(saveDataFileList(jsonOutputFile, outputFile, results, TRUE, f),
                        results, "done")
       ELSE /\ pc' = "done"
            /\ UNCHANGED <<jsonOutputFile, outputFile, storeLog>>
    /\ UNCHANGED <<script, ioFaults, maxConcurrentRequests, saveInterval, urlSource,
                   successFile, failedFile, nonMatchFile, urlsToProcess, i, attempts,
                   pipes, processedCount, results, batchLog, ledgerAtStart, fetched, exhausted>>

NextFileList ==
    \/ LoadFileList
    \/ FetchDoneFileList
    \/ RetryTimerFileList
    \/ AttemptTimerFileList
    \/ NextUrlFileList
    \/ FinalSaveFileList

----------------------------------------------------------------------------
Next == NextSitemap \/ NextFileList

\* runs in which every file operation succeeds
Spec == Init /\ [][Next]_vars

\* runs in which reads and writes may fail and the process may be killed
\* while it rewrites the store
SpecIO == InitIO /\ [][Next]_vars

\* the batch loop alone: runs of the sitemap script in which no URL is fetched
NextBatch ==
    \/ LoadSitemap
    \/ StartBatch
    \/ BatchBarrier
    \/ FinalSave

SpecBatch == InitBatch /\ [][NextBatch]_vars

\* the sitemap script on sitemaps that probe the target-domain predicate
SpecProbe == InitProbe /\ [][NextSitemap]_vars

----------------------------------------------------------------------------
(* Properties *)

\* the URLs a ledger file holds
LedgerUrls(file) == SeqToSet(loadProcessedUrls(file, TRUE))

\* the URLs of a list of records
RecordUrls(records) == {records[k].url : k \in DOMAIN records}

\* the records the persisted store holds when it is reloaded
StoredRecords == loadExistingData(jsonOutputFile, TRUE)

\* the positions of the pipelines of the j-th batch formed
LoggedPositions(j) == {batchLog[j].from + k : k \in DOMAIN batchLog[j].urls}

\* C1: no fetch is issued for a URL that a ledger file (success, failed or
\* nonmatch) held when the run started.
C1_NoRefetch == fetched \cap ledgerAtStart = {}

\* C1 witness: a finished run that fetched some URL while its URL source
\* also listed a URL a ledger held at the start.
C1_Witness ==
    /\ pc = "done"
    /\ fetched # {}
    /\ SeqToSet(urlSource) \cap ledgerAtStart # {}

\* C2: the URLs of the records in the Record Store are pairwise distinct.
C2_StoreUrlsDistinct ==
    \A a, b \in DOMAIN StoredRecords :
        a # b => StoredRecords[a].url # StoredRecords[b].url

\* C2 witness: a flush was handed a list that repeats a URL, and the store
\* holds records.
C2_Witness ==
    /\ storeLog.flushed
    /\ pc = "done"
    /\ StoredRecords # <<>>
    /\ \E a, b \in DOMAIN storeLog.given :
          a # b /\ storeLog.given[a].url = storeLog.given[b].url

\* C3: no record with an empty name or an empty sizeNo is in the Record Store.
C3_NoEmptyMandatoryField ==
    \A k \in DOMAIN StoredRecords :
        StoredRecords[k].name # "" /\ StoredRecords[k].sizeNo # ""

\* C3 witness: a finished run in which a URL ran out of retries (its
\* responses were errors or incomplete records) and a record scraped in this
\* run is stored.
C3_Witness ==
    /\ pc = "done"
    /\ exhausted # {}
    /\ \E k \in DOMAIN StoredRecords : StoredRecords[k].name = "Tyre"

\* C4 (as amended): in the sitemap script every pipeline (one per occurrence
\* of a URL in the pending list) of a target URL whose attempts all fail
\* issues exactly 4 fetches, then has the URL in the failed ledger and is
\* settled without a record; no pipeline ever issues more than 4 fetches, and
\* none gives up earlier.
C4_RetryBudgetPerPipeline ==
    script = "sitemap" =>
        /\ \A e \in exhausted :
              /\ e.fetches = 4
              /\ isTargetUrl(e.url)
              /\ e.url \in LedgerUrls(failedFile)
              /\ pipes[e.pos].st = "settled"
              /\ pipes[e.pos].res = <<>>
        /\ \A k \in DOMAIN pipes :
              /\ pipes[k].fetches <= 4
              /\ (/\ pipes[k].st = "settled"
                  /\ pipes[k].res = <<>>
                  /\ isTargetUrl(urlsToProcess[k]))
                 => \E e \in exhausted : e.pos = k

\* C4 witness: a finished run of the sitemap script in which a pipeline ran
\* out of retries.
C4_Witness ==
    /\ script = "sitemap"
    /\ pc = "done"
    /\ exhausted # {}

\* C4 (as claimed): a target URL whose every attempt in the run failed got
\* exactly 4 fetches in that run.
C4_RetryBudgetPerUrl ==
    script = "sitemap" =>
        \A u \in SeqToSet(urlsToProcess) :
            (/\ isTargetUrl(u)
             /\ \A k \in DOMAIN pipes :
                   urlsToProcess[k] = u => pipes[k].st = "settled" /\ pipes[k].res = <<>>)
            => /\ \A e1, e2 \in exhausted :
                     e1.url = u /\ e2.url = u => e1.pos = e2.pos
               /\ \A e \in exhausted : e.url = u => e.fetches = 4

\* C5: batches are formed in list order, and whenever a later batch has been
\* started every pipeline of every earlier batch has settled; no pipeline
\* outside the batches formed has started.
C5_BatchBarrier ==
    script = "sitemap" =>
        /\ \A j \in DOMAIN batchLog :
              j < Len(batchLog) =>
                  /\ batchLog[j].from < batchLog[j + 1].from
                  /\ \A k \in LoggedPositions(j) : pipes[k].st = "settled"
        /\ \A k \in DOMAIN pipes :
              pipes[k].st # "pending" => \E j \in DOMAIN batchLog : k \in LoggedPositions(j)

\* C5 witness: a pipeline of the second batch has a fetch in flight after a
\* pipeline of the first batch went through all its retries.
C5_Witness ==
    /\ script = "sitemap"
    /\ Len(batchLog) = 2
    /\ \E e \in exhausted : e.pos \in LoggedPositions(1)
    /\ \E k \in LoggedPositions(2) : pipes[k].st = "fetching"

\* C6: the batches formed are the consecutive slices of the pending list, the
\* j-th starting at index (j - 1) * B, each of B URLs except possibly the
\* last; when the loop has ended there are ceil(n / B) of them and every
\* position of the list is in exactly one.
C6_BatchPartition ==
    LET n == Len(urlsToProcess)
        B == maxConcurrentRequests
    IN  /\ \A j \in DOMAIN batchLog :
              /\ batchLog[j].from = (j - 1) * B
              /\ batchLog[j].urls = SubSeq(urlsToProcess, (j - 1) * B + 1, Min(j * B, n))
              /\ Len(batchLog[j].urls) >= 1
              /\ Len(batchLog[j].urls) <= B
              /\ j < Len(batchLog) => Len(batchLog[j].urls) = B
        /\ pc \in {"final", "done"} =>
              /\ Len(batchLog) * B >= n
              /\ (Len(batchLog) - 1) * B < n \/ (n = 0 /\ batchLog = <<>>)
              /\ \A p \in 1..n :
                    Cardinality({j \in DOMAIN batchLog : p \in LoggedPositions(j)}) = 1

\* C6 witness: 12 URLs with B = 5 were split into batches of 5, 5 and 2.
C6_Witness ==
    /\ pc = "done"
    /\ Len(urlsToProcess) = 12
    /\ maxConcurrentRequests = 5
    /\ Len(batchLog) = 3
    /\ Len(batchLog[1].urls) = 5
    /\ Len(batchLog[2].urls) = 5
    /\ Len(batchLog[3].urls) = 2

\* the new records a flush merges: those that pass the filter of the sitemap
\* saveData; the file-list saveData merges every record it is given
MergedNew(given) == IF script = "sitemap" THEN SelectSeq(given, ValidRecord) ELSE given

\* C7: in the sitemap script every settled pipeline is recorded by its
\* outcome: a complete record has its URL in the success ledger and is the
\* pipeline's result; a URL the target-domain predicate rejects is in the
\* nonmatch ledger and yields no record; a target URL without a record went
\* through its retries, is in the failed ledger and yields no record.  The
\* results collected are the records of the batches that have settled, in order.
C7_OutcomeClassification ==
    script = "sitemap" =>
        /\ \A k \in DOMAIN pipes :
              pipes[k].st = "settled" =>
                  LET url == urlsToProcess[k]
                      res == pipes[k].res
                  IN  /\ res # <<>> =>
                            /\ isTargetUrl(url)
                            /\ res[1].url = url
                            /\ res[1].name # "" /\ res[1].sizeNo # ""
                            /\ url \in LedgerUrls(successFile)
                      /\ ~isTargetUrl(url) =>
                            /\ res = <<>>
                            /\ url \in LedgerUrls(nonMatchFile)
                      /\ (isTargetUrl(url) /\ res = <<>>) =>
                            /\ url \in LedgerUrls(failedFile)
                            /\ \E e \in exhausted : e.pos = k
        /\ results = batchResults(0, Min(i, Len(urlsToProcess)))

\* C7 witness: a finished run of the sitemap script with one pipeline of
\* each outcome.
C7_Witness ==
    /\ script = "sitemap"
    /\ pc = "done"
    /\ results # <<>>
    /\ exhausted # {}
    /\ \E k \in DOMAIN pipes : ~isTargetUrl(urlsToProcess[k]) /\ pipes[k].st = "settled"

\* C8 (as claimed): a URL that is in a ledger file stays in it in every
\* later state, also when a read of the file fails or its content does not
\* parse.
C8_LedgerAppendOnly ==
    [][/\ LedgerUrls(successFile) \subseteq LedgerUrls(successFile')
       /\ LedgerUrls(failedFile) \subseteq LedgerUrls(failedFile')
       /\ LedgerUrls(nonMatchFile) \subseteq LedgerUrls(nonMatchFile')]_vars

C10_StoreFileComplete == jsonOutputFile.ok

\* C11 (as claimed): the export file is only ever replaced by the rename of a
\* fully written temporary file, never written in place, so it never holds a
\* partly written workbook.
C11_ExportOnlyRenamed == storeLog.export # "inplace" /\ outputFile.ok

\* a ledger file is rewritten by the step
LedgerWritten ==
    \/ successFile' # successFile
    \/ failedFile' # failedFile
    \/ nonMatchFile' # nonMatchFile

\* the store or the export is rewritten by the step
StoreWritten == jsonOutputFile' # jsonOutputFile \/ outputFile' # outputFile

\* C12 (as amended): in the sitemap script the store and the export are
\* written only when no pipeline is unsettled (after the barrier of a batch
\* and before the next batch starts), and a ledger file is written only by
\* a step in which a pipeline settles, which may be while other pipelines of
\* the batch are still unsettled.
C12_StoreBetweenBatchesLedgerOnSettle ==
    [][script = "sitemap" =>
          /\ StoreWritten =>
                /\ \A k \in DOMAIN pipes : pipes[k].st \in {"settled", "pending"}
                /\ pipes' = pipes
                /\ pc \in {"await", "final"}
          /\ LedgerWritten =>
                \E k \in DOMAIN pipes : pipes[k].st # "settled" /\ pipes'[k].st = "settled"]_vars

\* C12 witness: the store was flushed after the first batch and a pipeline of
\* the second batch has a fetch in flight.
C12_Witness ==
    /\ script = "sitemap"
    /\ Len(batchLog) = 2
    /\ storeLog.flushed
    /\ \E k \in LoggedPositions(2) : pipes[k].st = "fetching"
    /\ \E k \in LoggedPositions(1) : urlsToProcess[k] \in LedgerUrls(successFile) \ ledgerAtStart

\* C12 (as claimed): no ledger file, store or export is written by a step
\* that leaves a pipeline unsettled.
C12_NoWriteWhileUnsettled ==
    [][(script = "sitemap" /\ (LedgerWritten \/ StoreWritten)) =>
          \A k \in DOMAIN pipes : pipes'[k].st \in {"settled", "pending"}]_vars

\* C13: isTargetUrl is true exactly of the strings that parse as a URL
\* whose hostname is an entry of the allow-list: it accepts the allowed host
\* and rejects its substrings and superstrings, other hosts and strings that
\* are no URL.  In a run, no rejected string is ever requested, every one
\* whose pipeline has settled is in the nonmatch ledger with no record, and
\* every accepted one whose pipeline has started has been requested.
C13_TargetPredicate ==
    /\ \A u \in AcceptedCandidates : isTargetUrl(u)
    /\ \A u \in RejectedCandidates : ~isTargetUrl(u)
    /\ fetched \subseteq AcceptedCandidates
    /\ \A k \in DOMAIN pipes :
          LET u == urlsToProcess[k]
          IN  /\ (u \in RejectedCandidates /\ pipes[k].st # "pending") =>
                    /\ pipes[k].st = "settled"
                    /\ pipes[k].res = <<>>
                    /\ u \in LedgerUrls(nonMatchFile)
              /\ (u \in AcceptedCandidates /\ pipes[k].st # "pending") => u \in fetched

\* C13 witness: a finished run on a sitemap that lists the allowed host in
\* upper case, which was requested, and a string that is no URL, which was
\* put in the nonmatch ledger.
C13_Witness ==
    /\ pc = "done"
    /\ Url("https", "WWW.PITSTOPARABIA.COM", "/a") \in fetched
    /\ Url("", "www.pitstoparabia.com", "/a") \in LedgerUrls(nonMatchFile)

\* the step is the end of a turn of the batch loop (Promise.all has resolved)
BarrierStep == script = "sitemap" /\ pc = "await" /\ pc' # "await"

\* the records that turn hands to saveData
successfulResults == batchResults(i, i + Len(batchAt(i)))

\* C14: a turn of the batch loop whose results hold no valid record, with
\* which saveData(successfulResults, false) is at most called, leaves the
\* store file and the export as they were and rewrites nothing, also when
\* file operations may fail.
C14_NoOpFlush ==
    [][(BarrierStep /\ SelectSeq(successfulResults, ValidRecord) = <<>>) =>
          /\ jsonOutputFile' = jsonOutputFile
          /\ outputFile' = outputFile
          /\ storeLog' = storeLog]_vars

\* C14 witness: the only batch of a run has ended with records none of which
\* is valid (the price is missing); being the last batch, it called
\* saveData, and nothing was flushed.
C14_Witness ==
    /\ script = "sitemap"
    /\ pc = "final"
    /\ Len(batchLog) = 1
    /\ results # <<>>
    /\ SelectSeq(results, ValidRecord) = <<>>
    /\ ~storeLog.flushed
    /\ jsonOutputFile.data # <<>>

\* C15 (as claimed): whatever file operation fails, no exception leaves
\* runScraper: the run never ends by an exception escaping to the caller.
C15_NoExceptionEscapes == pc # "crashed"

\* the run entered Processing: URLs were left to process after the filter
EnteredProcessing == urlsToProcess # <<>>

\* the last flush was the forced one: saveData(results, true) rewrote the
\* store with the run's records merged in and regenerated the export from it
FinalFlushDone ==
    /\ storeLog.flushed
    /\ storeLog.final
    /\ storeLog.given = results
    /\ storeLog.export = "renamed"
    /\ RecordUrls(MergedNew(results)) \subseteq RecordUrls(StoredRecords)
    /\ outputFile = File(excelData(StoredRecords))

EmptyWorkSet == SeqToSet(urlSource) \subseteq ledgerAtStart

\* C17: when every URL of the universe is already in a ledger, no step of
\* the run requests a page, writes a ledger, the store or the export, or
\* adds a record to the results.
C17_EmptyWorkSetNoEffect ==
    [][EmptyWorkSet =>
          /\ UNCHANGED <<successFile, failedFile, nonMatchFile, jsonOutputFile, outputFile>>
          /\ fetched' = {}
          /\ results' = <<>>
          /\ urlsToProcess' = <<>>]_vars

\* C17 witness: a finished run on a universe of two different URLs, listed
\* three times in all, each of which a ledger held at the start.
C17_Witness ==
    /\ pc = "done"
    /\ Len(urlSource) = 3
    /\ Cardinality(SeqToSet(urlSource)) = 2
    /\ EmptyWorkSet

\* the valid records the pipelines of the j-th batch formed have produced
BatchValidUrls(j) ==
    {urlsToProcess[k] : k \in {p \in LoggedPositions(j) :
                                   /\ pipes[p].res # <<>>
                                   /\ ValidRecord(pipes[p].res[1])}}

\* C18 (as claimed): whatever the batch size and the save interval, once the
\* next batch has started the valid records of every earlier batch are in
\* the persisted store.
C18_FlushedBeforeNextBatch ==
    script = "sitemap" =>
        \A j \in DOMAIN batchLog :
            j < Len(batchLog) => BatchValidUrls(j) \subseteq RecordUrls(StoredRecords)

\* C19 (as claimed): no step that leaves the process alive removes or alters
\* a record of the persisted store, also when the load of the existing store
\* fails during a flush.
C19_StoreMonotonic ==
    [][pc' # "killed" =>
          \A k \in DOMAIN StoredRecords :
              \E m \in DOMAIN StoredRecords' : StoredRecords'[m] = StoredRecords[k]]_vars

\* the pipelines with an HTTP request in flight
InFlight == {k \in DOMAIN pipes : pipes[k].st = "fetching"}

\* C20: in the sitemap script at most maxConcurrentRequests requests are in
\* flight, retries included, all of them of the batch formed last; a
\* pipeline issues its next request only after the one before has settled,
\* so it has issued retryCount + 1 requests and has at most one in flight.
C20_BoundedConcurrency ==
    script = "sitemap" =>
        /\ Cardinality(InFlight) <= maxConcurrentRequests
        /\ InFlight # {} => InFlight \subseteq LoggedPositions(Len(batchLog))
        /\ \A k \in DOMAIN pipes :
              pipes[k].st \in {"fetching", "delaying"} =>
                  pipes[k].fetches = pipes[k].retryCount + 1

\* C20 witness: with batch size 2, two requests are in flight and one of
\* them is a retry.
C20_Witness ==
    /\ script = "sitemap"
    /\ maxConcurrentRequests = 2
    /\ Cardinality(InFlight) = 2
    /\ \E k \in InFlight : pipes[k].retryCount > 0

\* C21 (as claimed): in the file-list script a URL whose every fetch fails
\* has had exactly 4 requests, those of scrapeUrl and those of the loop of
\* runScraper together, when it is written to the failed ledger.
C21_FileListRetryBudget ==
    script = "filelist" => \A e \in exhausted : e.fetches = 4

\* the pipelines of the sitemap script whose string is no URL or whose
\* hostname is not in the allow-list
NonTargetPipes ==
    {k \in DOMAIN pipes :
        ~parses(urlsToProcess[k]) \/ hostname(urlsToProcess[k]) \notin targetDomains}

\* C22: in the sitemap script the pipeline of a URL the target-domain
\* predicate rejects never has a request in flight nor a retry delay
\* running: it settles in the step that starts its batch, with no record and
\* the URL in the nonmatch ledger; the URL is never requested, and no retry
\* budget is ever used up for it.
C22_NonTargetNoRequest ==
    script = "sitemap" =>
        /\ \A k \in NonTargetPipes :
              /\ pipes[k].st \in {"pending", "settled"}
              /\ pipes[k].retryCount = 0
              /\ pipes[k].fetches = 0
              /\ pipes[k].res = <<>>
              /\ urlsToProcess[k] \notin fetched
              /\ pipes[k].st = "settled" => urlsToProcess[k] \in LedgerUrls(nonMatchFile)
              /\ (\E j \in DOMAIN batchLog : k \in LoggedPositions(j)) => pipes[k].st = "settled"
        /\ \A e \in exhausted : e.pos \notin NonTargetPipes

\* C22 witness: a batch of two has just started: the pipeline of the URL of
\* another host has settled with the URL in the nonmatch ledger while the
\* request of the target URL next to it is in flight.
C22_Witness ==
    /\ script = "sitemap"
    /\ pc = "await"
    /\ \E k \in NonTargetPipes, m \in DOMAIN pipes :
          /\ pipes[k].st = "settled"
          /\ urlsToProcess[k] \in LedgerUrls(nonMatchFile) \ ledgerAtStart
          /\ pipes[m].st = "fetching"
          /\ \E j \in DOMAIN batchLog : {k, m} \subseteq LoggedPositions(j)

\* no URL is in two of the three ledgers
LedgersDisjoint ==
    /\ LedgerUrls(successFile) \cap LedgerUrls(failedFile) = {}
    /\ LedgerUrls(successFile) \cap LedgerUrls(nonMatchFile) = {}
    /\ LedgerUrls(failedFile) \cap LedgerUrls(nonMatchFile) = {}

\* the universe lists a URL the target-domain predicate accepts more than once
TargetListedTwice ==
    \E a, b \in DOMAIN urlSource :
        a # b /\ urlSource[a] = urlSource[b] /\ isTargetUrl(urlSource[a])

\* C23 (as amended): starting from disjoint ledgers, no URL is ever in more
\* than one ledger in the file-list script (which drops repeated URLs), and
\* in the sitemap script when the sitemap lists no target URL more than once.
C23_LedgersDisjointUnlessRepeated ==
    (script = "filelist" \/ ~TargetListedTwice) => LedgersDisjoint

\* C23 witness: a finished run of the sitemap script on three different
\* URLs after which each of the three ledgers holds a URL.
C23_Witness ==
    /\ script = "sitemap"
    /\ pc = "done"
    /\ ~TargetListedTwice
    /\ Len(urlsToProcess) = 3
    /\ LedgerUrls(successFile) # {}
    /\ LedgerUrls(failedFile) # {}
    /\ LedgerUrls(nonMatchFile) # {}

\* C23 (as claimed): no URL is ever in more than one ledger, also when the
\* universe lists the same URL more than once.
C23_LedgersDisjointAlways == LedgersDisjoint

\* the URLs this run has added to the success ledger
NewSuccessUrls == LedgerUrls(successFile) \ ledgerAtStart

\* C24 (as claimed): when a run of the sitemap script that entered
\* Processing has completed, final flush included and every file operation
\* having succeeded, every URL the run put in the success ledger has a
\* record in the persisted store.
C24_SuccessImpliesStored ==
    (script = "sitemap" /\ pc = "done" /\ EnteredProcessing) =>
        NewSuccessUrls \subseteq RecordUrls(StoredRecords)

\* the pipelines that have extracted a record saveData will merge, and whose
\* URL is in the success ledger
ExtractedAndLedgered ==
    {k \in DOMAIN pipes :
        /\ pipes[k].st = "settled"
        /\ pipes[k].res # <<>>
        /\ MergedNew(pipes[k].res) # <<>>
        /\ urlsToProcess[k] \in LedgerUrls(successFile)}

\* C25 (as claimed): at every point of a run, where the process may be
\* killed, each URL in the success ledger whose record the run extracted
\* already has that record in the persisted store.
C25_LedgeredImpliesPersisted ==
    \A k \in ExtractedAndLedgered : urlsToProcess[k] \in RecordUrls(StoredRecords)

\* the ledger file the outcome of settled pipeline k is recorded in
OutcomeLedger(k) ==
    IF pipes[k].res # <<>> THEN successFile
    ELSE IF failureLedger(urlsToProcess[k]) = "failed" THEN failedFile
    ELSE nonMatchFile

\* C26: in the sitemap script, with every file operation succeeding, every
\* step of every interleaving of the pipelines of a batch keeps all the
\* entries the three ledgers held, and after the step the URL of every
\* settled pipeline, the one that settled in the step included, is in the
\* ledger of its outcome: no saveProgress of one pipeline removes the entry
\* another pipeline added.
C26_NoLostLedgerUpdate ==
    [][script = "sitemap" =>
          /\ LedgerUrls(successFile) \subseteq LedgerUrls(successFile')
          /\ LedgerUrls(failedFile) \subseteq LedgerUrls(failedFile')
          /\ LedgerUrls(nonMatchFile) \subseteq LedgerUrls(nonMatchFile')
          /\ \A k \in DOMAIN pipes' :
                pipes'[k].st = "settled" =>
                    urlsToProcess'[k] \in LedgerUrls(OutcomeLedger(k)')]_vars

\* C26 witness: a batch of two pipelines has settled, both with a record for
\* a URL no ledger held at the start, and the success ledger holds both URLs.
C26_Witness ==
    /\ script = "sitemap"
    /\ \E j \in DOMAIN batchLog :
          \E a, b \in LoggedPositions(j) :
              /\ a # b
              /\ urlsToProcess[a] # urlsToProcess[b]
              /\ pipes[a].st = "settled" /\ pipes[a].res # <<>>
              /\ pipes[b].st = "settled" /\ pipes[b].res # <<>>
              /\ {urlsToProcess[a], urlsToProcess[b]} \cap ledgerAtStart = {}
              /\ {urlsToProcess[a], urlsToProcess[b]} \subseteq LedgerUrls(successFile)

====
